---- MODULE Spec2Model ----
(***************************************************************************)
(* Model of the resume customization pipeline (iamfaham/resume-customizer).*)
(*                                                                         *)
(*   SpecClean : GeminiResumeGenerator._clean_latex_response as a pure     *)
(*               function over character strings.                          *)
(*   Spec      : ResumeCustomizer.customize_resume / customize_resume_simple*)
(*               as a state machine over the stages of one run.            *)
(*                                                                         *)
(* A model response is a sequence of one-character strings.                *)
(***************************************************************************)
EXTENDS Integers, Sequences, FiniteSets, TLC

NULL == "None"

(***************************************************************************)
(* Bounds.                                                                 *)
(***************************************************************************)
MaxTokens == 5

(***************************************************************************)
(* Python str helpers used by _clean_latex_response.                       *)
(***************************************************************************)
\* the backtick character (written BT: the character itself cannot occur in a
\* string literal)
BT == "BT"

Fence == <<BT, BT, BT>>

Label == <<"l", "a", "t", "e", "x">>

LabeledFence == Fence \o Label

Whitespace == {" ", "\n"}

MinOf(S) == CHOOSE m \in S : \A n \in S : m <= n

\* str.find(sub, start): lowest 0-based index >= start where sub occurs, else -1
Find(s, sub, start) ==
    LET hits == {i \in start..(Len(s) - Len(sub)) :
                    SubSeq(s, i + 1, i + Len(sub)) = sub}
    IN  IF hits = {} THEN -1 ELSE MinOf(hits)

\* the test  sub in s
Contains(s, sub) == Find(s, sub, 0) # -1

\* s[start:end]
Slice(s, start, end) == SubSeq(s, start + 1, end)

StartsWith(s, sub) == Len(s) >= Len(sub) /\ SubSeq(s, 1, Len(sub)) = sub

EndsWith(s, sub) ==
    Len(s) >= Len(sub) /\ SubSeq(s, Len(s) - Len(sub) + 1, Len(s)) = sub

\* str.strip(): drop leading and trailing whitespace
strip(s) ==
    LET keep == {i \in 1..Len(s) : s[i] \notin Whitespace}
    IN  IF keep = {} THEN <<>>
        ELSE SubSeq(s, MinOf(keep), CHOOSE m \in keep : \A n \in keep : n <= m)

(***************************************************************************)
(* GeminiResumeGenerator._clean_latex_response                             *)
(***************************************************************************)
\* a plausible slip: the whitespace is trimmed before the span is extracted
clean_strip_first(response) ==
    LET r == strip(response)
    IN  IF Contains(r, LabeledFence)
        THEN LET start == Find(r, LabeledFence, 0) + 8
                 end   == Find(r, Fence, start)
             IN  IF end # -1 THEN Slice(r, start, end) ELSE r
        ELSE IF Contains(r, Fence)
        THEN LET start == Find(r, Fence, 0) + 3
                 end   == Find(r, Fence, start)
             IN  IF end # -1 THEN Slice(r, start, end) ELSE r
        ELSE r

\* a plausible slip: the labeled branch skips the fence but not its label
clean_label_kept(response) ==
    LET extracted ==
            IF Contains(response, LabeledFence)
            THEN LET start == Find(response, LabeledFence, 0) + 3
                     end   == Find(response, Fence, start)
                 IN  IF end # -1 THEN Slice(response, start, end) ELSE response
            ELSE IF Contains(response, Fence)
            THEN LET start == Find(response, Fence, 0) + 3
                     end   == Find(response, Fence, start)
                 IN  IF end # -1 THEN Slice(response, start, end) ELSE response
            ELSE response
    IN  strip(extracted)

_clean_latex_response(response) ==
    LET extracted ==
            IF Contains(response, LabeledFence)
            THEN LET start == Find(response, LabeledFence, 0) + 8
                     end   == Find(response, Fence, start)
                 IN  IF end # -1 THEN Slice(response, start, end) ELSE response
            ELSE IF Contains(response, Fence)
            THEN LET start == Find(response, Fence, 0) + 3
                     end   == Find(response, Fence, start)
                 IN  IF end # -1 THEN Slice(response, start, end) ELSE response
            ELSE response
    IN  strip(extracted)

(***************************************************************************)
(* Exceptions.  An exception is a record [cls, msg]; str(e) is e.msg.      *)
(***************************************************************************)
Exc(cls, msg) == [cls |-> cls, msg |-> msg]

NoExc == Exc(NULL, NULL)

\* the classes that derive from Exception
ExceptionSubclasses ==
    {"Exception", "ValueError", "TypeError", "FileNotFoundError",
     "PermissionError", "UnicodeDecodeError", "UnicodeEncodeError", "RuntimeError", "OSError",
     "TimeoutExpired", "ServerError"}

\* a plausible slip: the handler names one exception class only
HandlerCatches_ValueErrorOnly(cls) == cls = "ValueError"

\* customize_resume:  except Exception as e
HandlerCatches(cls) == cls \in ExceptionSubclasses

NoFailure == [stage |-> "none", exc |-> NoExc]

Ok(v) == [ok |-> TRUE, value |-> v]

Err(e) == [ok |-> FALSE, exc |-> e]

(***************************************************************************)
(* Resume text.  A text is a sequence of runs [ws, n]: n whitespace        *)
(* characters (ws) or n other characters.                                  *)
(***************************************************************************)
Run(ws, n) == [ws |-> ws, n |-> n]

RECURSIVE TextLen(_)
TextLen(t) == IF t = <<>> THEN 0 ELSE Head(t).n + TextLen(Tail(t))

RECURSIVE LStrip(_)
LStrip(t) == IF t # <<>> /\ Head(t).ws THEN LStrip(Tail(t)) ELSE t

RECURSIVE RStrip(_)
RStrip(t) ==
    IF t # <<>> /\ t[Len(t)].ws THEN RStrip(SubSeq(t, 1, Len(t) - 1)) ELSE t

TextStrip(t) == RStrip(LStrip(t))

\* a plausible slip: only emptiness is tested, the minimum length is not
validate_nonempty_only(resume_text) ==
    ~(TextLen(resume_text) = 0 \/ TextLen(TextStrip(resume_text)) = 0)

\* ResumeParser.validate_resume_content
validate_resume_content(resume_text) ==
    IF TextLen(resume_text) = 0 \/ TextLen(TextStrip(resume_text)) = 0
    THEN FALSE
    ELSE IF TextLen(TextStrip(resume_text)) < 100
    THEN FALSE
    ELSE TRUE

(***************************************************************************)
(* Input files.  A file is [name, exists, suffix, body]; body is what the  *)
(* format-specific extractor does with it: Ok(text) or Err(exception).     *)
(***************************************************************************)
File(name, exists, suffix, body) ==
    [name |-> name, exists |-> exists, suffix |-> suffix, body |-> body,
     stat |-> "ok"]

\* a name with a component longer than the file system allows (NAME_MAX, 255
\* bytes): os.stat fails on it with ENAMETOOLONG, which Path.exists re-raises
LongNamed(name, suffix) ==
    [File(name, FALSE, suffix, [ok |-> TRUE, value |-> <<>>])
        EXCEPT !.stat = "ENAMETOOLONG"]

\* Path.exists() raises rather than answers
StatFails(file_path) == file_path.stat # "ok"

NameTooLong(file_path) ==
    Exc("OSError", "[Errno 36] File name too long: " \o file_path.name)

\* None passed where a file path is expected
NoneFile == File(NULL, FALSE, "", [ok |-> TRUE, value |-> <<>>])

SUPPORTED_FORMATS == {".txt", ".pdf", ".docx", ".doc"}

\* str.lower() on the suffixes of the model
Lower(suffix) ==
    IF suffix = ".TXT" THEN ".txt"
    ELSE IF suffix = ".PDF" THEN ".pdf"
    ELSE IF suffix = ".DOCX" THEN ".docx"
    ELSE IF suffix = ".DOC" THEN ".doc"
    ELSE suffix

\* _parse_txt propagates what open/read raise; _parse_pdf and _parse_docx wrap
extract(file_ext, body) ==
    IF body.ok THEN body
    ELSE IF file_ext = ".txt" THEN body
    ELSE IF file_ext = ".pdf"
    THEN Err(Exc("Exception", "Error parsing PDF file: " \o body.exc.msg))
    ELSE Err(Exc("Exception", "Error parsing DOCX file: " \o body.exc.msg))

\* the extractor lines 43-48 dispatch to
extractor_of(file_ext) ==
    IF file_ext = ".txt" THEN "_parse_txt"
    ELSE IF file_ext = ".pdf" THEN "_parse_pdf"
    ELSE "_parse_docx"

\* what a parser call yields: its outcome and the extractors it ran on the file
Parsed(out, ran) == [out |-> out, ran |-> ran]

\* ResumeParser.parse_resume
parse_resume(file_path) ==
    IF file_path = NoneFile
    THEN Parsed(Err(Exc("TypeError",
                        "expected str, bytes or os.PathLike object, not NoneType")),
                <<>>)
    ELSE IF StatFails(file_path)
    THEN Parsed(Err(NameTooLong(file_path)), <<>>)
    ELSE IF ~file_path.exists
    THEN Parsed(Err(Exc("FileNotFoundError",
                        "Resume file not found: " \o file_path.name)),
                <<>>)
    ELSE LET file_ext == Lower(file_path.suffix)
         IN  IF file_ext \notin SUPPORTED_FORMATS
             THEN Parsed(Err(Exc("ValueError",
                                 "Unsupported file format: " \o file_ext
                                 \o ". Supported formats: .txt, .pdf, .docx, .doc")),
                         <<>>)
             ELSE Parsed(extract(file_ext, file_path.body),
                         <<extractor_of(file_ext)>>)

\* ResumeParser.parse_job_description; job_desc is [isStr, value, file], where
\* file is what Path(value) names on disk
parse_job_description(job_desc) ==
    IF job_desc.isStr /\ StatFails(job_desc.file)
    THEN Parsed(Err(NameTooLong(job_desc.file)), <<>>)
    ELSE IF job_desc.isStr /\ ~job_desc.file.exists
    THEN Parsed(Ok(job_desc.value), <<>>)
    ELSE parse_resume(job_desc.file)

(***************************************************************************)
(* Output paths.  A path is [stem, suffix]; str(path) is stem \o suffix.   *)
(***************************************************************************)
PathOf(stem, suffix) == [stem |-> stem, suffix |-> suffix]

\* None passed where a path is expected
NonePath == PathOf(NULL, NULL)

PathStr(path) == path.stem \o path.suffix

\* Path.with_suffix
with_suffix(path, suffix) == [path EXCEPT !.suffix = suffix]

(***************************************************************************)
(* Generation client.  A backend outcome is what one generate_content call *)
(* does: it raises, or it returns a response whose text is a string or None.*)
(***************************************************************************)
Raises(e) == [kind |-> "raise", exc |-> e, text |-> <<>>]

\* a response whose text attribute is None
RespondsNone == [kind |-> "none_text", exc |-> NoExc, text |-> <<>>]

Responds(text) == [kind |-> "text", exc |-> NoExc, text |-> text]

GenerationErrorPrefix == "Error generating resume with Gemini API: "

NoneTextMsg == "argument of type 'NoneType' is not iterable"

\* the message of whatever lines 61-66 (or 146-151, 283-288) raise on this outcome
PassFailure(outcome) ==
    IF outcome.kind = "raise" THEN outcome.exc.msg ELSE NoneTextMsg

PassFails(outcome) == outcome.kind \in {"raise", "none_text"}

\* a plausible slip: a failed draft request is swallowed and generation goes on
draft_pass_swallowing(outcome) ==
    IF PassFails(outcome)
    THEN Ok(<<>>)
    ELSE Ok(_clean_latex_response(outcome.text))

\* first pass of generate_customized_resume / generate_with_custom_instructions:
\* the request, response.text, _clean_latex_response, and the wrapping handler
draft_pass(outcome) ==
    IF PassFails(outcome)
    THEN Err(Exc("Exception", GenerationErrorPrefix \o PassFailure(outcome)))
    ELSE Ok(_clean_latex_response(outcome.text))

\* a plausible slip: an empty second-pass answer is dropped in favour of the draft
validate_and_enhance_nonempty(latex_code, outcome) ==
    IF PassFails(outcome) \/ _clean_latex_response(outcome.text) = <<>>
    THEN Ok(latex_code)
    ELSE Ok(_clean_latex_response(outcome.text))

\* a plausible slip: the handler of the second pass re-raises
validate_and_enhance_reraising(latex_code, outcome) ==
    IF PassFails(outcome)
    THEN Err(Exc("Exception", PassFailure(outcome)))
    ELSE Ok(_clean_latex_response(outcome.text))

\* GeminiResumeGenerator._validate_and_enhance_latex
_validate_and_enhance_latex(latex_code, outcome) ==
    IF PassFails(outcome)
    THEN Ok(latex_code)
    ELSE Ok(_clean_latex_response(outcome.text))

\* the  if custom_instructions:  test
Truthy(v) == v # NULL /\ v # ""

\* the generation entry point customize_resume calls
GenerateVia(custom_instructions) ==
    IF Truthy(custom_instructions)
    THEN "generate_with_custom_instructions"
    ELSE "generate_customized_resume"

\* the built-in template both generate functions default to
RESUME_LATEX_TEMPLATE == "RESUME_LATEX_TEMPLATE"

\* one request to the backend, as the run records it
Request(pass, via, latex_code, outcome) ==
    [pass |-> pass, via |-> via, latex_code |-> latex_code,
     template |-> RESUME_LATEX_TEMPLATE,
     failed |-> PassFails(outcome), answer |-> outcome.text]

\* a plausible slip: a failed draft request is submitted a second time
draft_requests_retrying(via, outcome) ==
    IF PassFails(outcome)
    THEN <<Request("draft", via, <<>>, outcome), Request("draft", via, <<>>, outcome)>>
    ELSE <<Request("draft", via, <<>>, outcome)>>

\* the requests of the first pass: the one generate_content call of lines 61-63
\* (283-285), its prompt built from the resume, the job and the template
draft_requests(via, outcome) == <<Request("draft", via, <<>>, outcome)>>

\* the requests of the second pass: the one generate_content call of lines
\* 146-148, its prompt built from latex_code and the template (line 143)
validation_requests(latex_code, outcome) ==
    <<Request("validation", "_validate_and_enhance_latex", latex_code, outcome)>>

(***************************************************************************)
(* Render engine.                                                          *)
(***************************************************************************)
\* what one pdflatex invocation does
InvocationOutcomes ==
    {"not_found", "timeout", "no_pdf_no_log", "no_pdf_log_plain",
     "no_pdf_log_error", "pdf", "pdf_errors"}

\* a plausible slip: the exit status of the compiler is consulted as well
artifact_and_exit_zero(o) == o = "pdf"

\* _latex_to_pdf lines 91-92, pdf_file.exists() after an invocation: "pdf" left
\* the artifact and exited with 0, "pdf_errors" left it and exited with 1 (the
\* nonstopmode run of a source with errors); result.returncode is never read
artifact_present(o) == o \in {"pdf", "pdf_errors"}

PdflatexMissingMsg ==
    "pdflatex not found. Please install LaTeX (e.g., TeX Live, MiKTeX) to enable PDF generation."

PdfTimeoutMsg == "PDF compilation timed out after 30 seconds"

PdfErrorPrefix == "Error converting LaTeX to PDF: "

FirstErrorLine == "! Undefined control sequence."

\* the error_msg of lines 95-109
compile_error_msg(o) ==
    IF o = "no_pdf_log_error"
    THEN "LaTeX Error: " \o FirstErrorLine
    ELSE "PDF compilation failed"

\* the exception _latex_to_pdf raises when an invocation does not leave the pdf
pdf_failure(o) ==
    IF o = "timeout" THEN Exc("Exception", PdfTimeoutMsg)
    ELSE IF o = "not_found" THEN Exc("Exception", PdflatexMissingMsg)
    ELSE Exc("Exception", PdfErrorPrefix \o compile_error_msg(o))

\* what shutil.copy(pdf_file, output_path) does: "not_found" is the
\* FileNotFoundError of an output path that is a dangling symbolic link or
\* whose directory has gone
CopyOutcomes == {"ok", "denied", "not_found"}

\* the exception _latex_to_pdf raises when the copy fails: its handlers go by
\* the class of what shutil.copy raised
copy_failure(copy, output_path) ==
    IF copy = "not_found"
    THEN Exc("Exception", PdflatexMissingMsg)
    ELSE Exc("Exception",
             PdfErrorPrefix \o "[Errno 13] Permission denied: " \o output_path)

\* what writing latex_code to a file opened with encoding="utf-8" does:
\* "unencodable" is markup holding a lone surrogate
WriteOutcomes == {"ok", "unencodable"}

EncodeErrorMsg == "'utf-8' codec can't encode character: surrogates not allowed"

\* what a render did: the tool invocations made, whether the output path was
\* written, the value returned or the exception raised, and its effects on the
\* file system in order
Block(invocations, wrote, res, events) ==
    [invocations |-> invocations, wrote |-> wrote, res |-> res, events |-> events]

\* a plausible slip: the artifact is copied as soon as an invocation leaves it
pdf_try_block_eager(output_path, o1, o2, copy) ==
    IF ~artifact_present(o1)
    THEN Block(1, FALSE, Err(pdf_failure(o1)), <<"pdflatex:" \o o1>>)
    ELSE IF copy # "ok"
    THEN Block(1, FALSE, Err(copy_failure(copy, output_path)),
               <<"pdflatex:" \o o1, "copy_failed">>)
    ELSE IF ~artifact_present(o2)
    THEN Block(2, TRUE, Err(pdf_failure(o2)),
               <<"pdflatex:" \o o1, "copy", "pdflatex:" \o o2>>)
    ELSE Block(2, TRUE, Ok(output_path),
               <<"pdflatex:" \o o1, "copy", "pdflatex:" \o o2, "copy">>)

\* _latex_to_pdf lines 75-127, the try block and its handlers: o1, o2 are the
\* two invocations, copy is what shutil.copy does
pdf_try_block(output_path, o1, o2, copy) ==
    IF ~artifact_present(o1)
    THEN Block(1, FALSE, Err(pdf_failure(o1)), <<"pdflatex:" \o o1>>)
    ELSE IF ~artifact_present(o2)
    THEN Block(2, FALSE, Err(pdf_failure(o2)),
               <<"pdflatex:" \o o1, "pdflatex:" \o o2>>)
    ELSE IF copy # "ok"
    THEN Block(2, FALSE, Err(copy_failure(copy, output_path)),
               <<"pdflatex:" \o o1, "pdflatex:" \o o2, "copy_failed">>)
    ELSE Block(2, TRUE, Ok(output_path),
               <<"pdflatex:" \o o1, "pdflatex:" \o o2, "copy">>)

\* a plausible slip: the directory is removed at the end of the happy path only
with_scratch_leaky(block) ==
    IF block.res.ok
    THEN [block EXCEPT !.events = <<"mkdtemp">> \o @ \o <<"rmtree">>]
    ELSE [block EXCEPT !.events = <<"mkdtemp">> \o @]

\* with tempfile.TemporaryDirectory() as temp_dir: the directory is created on
\* entry and removed with its contents on every exit of the block
with_scratch(block) ==
    [block EXCEPT !.events = <<"mkdtemp">> \o @ \o <<"rmtree">>]

\* LaTeXConverter._latex_to_pdf: w is what writing resume.tex does (lines 72-73,
\* outside the try block, so its exception leaves unwrapped)
_latex_to_pdf(output_path, w, o1, o2, copy) ==
    with_scratch(
        IF w # "ok"
        THEN Block(0, FALSE, Err(Exc("UnicodeEncodeError", EncodeErrorMsg)),
                   <<"write_tex_failed">>)
        ELSE LET b == pdf_try_block(output_path, o1, o2, copy)
             IN  [b EXCEPT !.events = <<"write_tex">> \o @])

\* what pypandoc.convert_file does
PandocOutcomes ==
    {Ok("docx"),
     Err(Exc("OSError", "No pandoc was found: either install pandoc and add it to your PATH")),
     Err(Exc("RuntimeError", "Pandoc died with exitcode 43 during conversion")),
     Err(Exc("RuntimeError", "Invalid input format! Got latexx"))}

\* "pandoc" in str(e).lower(), on the messages of the model
MentionsPandoc(msg) ==
    msg \in {"No pandoc was found: either install pandoc and add it to your PATH",
             "Pandoc died with exitcode 43 during conversion"}

PandocMissingMsg ==
    "Pandoc not found. Please install Pandoc to enable Word document generation. Visit: https://pandoc.org/installing.html"

DocxErrorPrefix == "Error converting LaTeX to DOCX: "

\* LaTeXConverter._latex_to_docx: w is what writing the temporary file does
\* (lines 145-149, before the inner try whose finally unlinks it), o is what
\* pypandoc.convert_file does
_latex_to_docx(output_path, w, o) ==
    IF w # "ok"
    THEN Block(0, FALSE, Err(Exc("Exception", DocxErrorPrefix \o EncodeErrorMsg)),
               <<"mkstemp", "write_tmp_failed">>)
    ELSE IF o.ok
    THEN Block(1, TRUE, Ok(output_path),
               <<"mkstemp", "write_tmp", "pandoc", "unlink">>)
    ELSE IF o.exc.cls = "RuntimeError" /\ MentionsPandoc(o.exc.msg)
    THEN Block(1, FALSE, Err(Exc("Exception", PandocMissingMsg)),
               <<"mkstemp", "write_tmp", "pandoc_failed", "unlink">>)
    ELSE Block(1, FALSE, Err(Exc("Exception", DocxErrorPrefix \o o.exc.msg)),
               <<"mkstemp", "write_tmp", "pandoc_failed", "unlink">>)

\* the tool behind each rendered format
ToolOf(output_format) == IF output_format = "pdf" THEN "pdflatex" ELSE "pandoc"

\* a plausible slip: a format that is not docx is rendered as pdf
convert_pdf_by_default(output_path, output_format, w, o1, o2, copy, po) ==
    LET r == IF output_format = "docx"
             THEN _latex_to_docx(output_path, w, po)
             ELSE _latex_to_pdf(output_path, w, o1, o2, copy)
    IN  [r EXCEPT !.events = <<"mkdir">> \o @]

\* LaTeXConverter.convert
convert(output_path, output_format, w, o1, o2, copy, po) ==
    LET r == IF output_format = "pdf"
             THEN _latex_to_pdf(output_path, w, o1, o2, copy)
             ELSE IF output_format = "docx"
             THEN _latex_to_docx(output_path, w, po)
             ELSE Block(0, FALSE,
                        Err(Exc("ValueError",
                                "Unsupported output format: " \o output_format)),
                        <<>>)
    IN  [r EXCEPT !.events = <<"mkdir">> \o @]

\* what the environment can do during a render of this format: the outcomes
\* the format never meets are held at one value
RenderOutcomes(output_format) ==
    IF output_format = "pdf"
    THEN [w : WriteOutcomes, o1 : InvocationOutcomes, o2 : InvocationOutcomes,
          copy : CopyOutcomes, po : {Ok("docx")}]
    ELSE IF output_format = "docx"
    THEN [w : WriteOutcomes, o1 : {"pdf"}, o2 : {"pdf"}, copy : {"ok"},
          po : PandocOutcomes]
    ELSE [w : {"ok"}, o1 : {"pdf"}, o2 : {"pdf"}, copy : {"ok"}, po : {Ok("docx")}]

\* a plausible slip: the source is always kept
should_save_always(save_latex, output_format) == TRUE

\* customize_resume line 103:  if save_latex or output_format == "tex"
should_save(save_latex, output_format) == save_latex \/ output_format = "tex"

\* a plausible slip: every format is handed to the converter
needs_render_always(output_format) == TRUE

\* customize_resume line 110: the else branch of  if output_format == "tex"
needs_render(output_format) == output_format # "tex"

(***************************************************************************)
(* Raw responses: every concatenation of at most MaxTokens pieces.         *)
(***************************************************************************)
Tokens == {"FENCE", "LABEL", "a", " ", BT, "\n"}

Expand(t) == IF t = "FENCE" THEN Fence ELSE IF t = "LABEL" THEN Label ELSE <<t>>

RECURSIVE Flatten(_)
Flatten(ts) == IF ts = <<>> THEN <<>> ELSE Expand(Head(ts)) \o Flatten(Tail(ts))

TokenSeqs == UNION {[1..k -> Tokens] : k \in 0..MaxTokens}

\* separators between a fence line and the payload it encloses
Separators == {<<>>, <<"\n">>, <<" ">>}

WrapLabeled(P, sep) == LabeledFence \o sep \o P \o sep \o Fence

WrapGeneric(P, sep) == Fence \o sep \o P \o sep \o Fence

(***************************************************************************)
(* Inputs of a run.                                                        *)
(***************************************************************************)
LongText == <<Run(TRUE, 2), Run(FALSE, 150), Run(TRUE, 1)>>

ResumePaths ==
    {NoneFile,
     File("missing.txt", FALSE, ".txt", Ok(<<>>)),
     File("resume.md", TRUE, ".md", Ok(LongText)),
     File("resume.TXT", TRUE, ".TXT", Ok(LongText)),
     File("short.txt", TRUE, ".txt", Ok(<<Run(TRUE, 30), Run(FALSE, 99), Run(TRUE, 30)>>)),
     File("blank.docx", TRUE, ".docx", Ok(<<Run(TRUE, 120)>>)),
     File("broken.pdf", TRUE, ".pdf", Err(Exc("Exception", "EOF marker not found"))),
     File("latin1.txt", TRUE, ".txt",
          Err(Exc("UnicodeDecodeError", "'utf-8' codec can't decode byte 0xe9")))}

JobDescriptions ==
    {[isStr |-> TRUE, value |-> "Senior Python Developer",
      file |-> File("Senior Python Developer", FALSE, "", Ok(<<>>))],
     [isStr |-> TRUE, value |-> "job.txt",
      file |-> File("job.txt", TRUE, ".txt", Ok(<<Run(FALSE, 80)>>))],
     [isStr |-> TRUE, value |-> "job.html",
      file |-> File("job.html", TRUE, ".html", Ok(<<Run(FALSE, 80)>>))],
     [isStr |-> TRUE, value |-> "We are hiring ... (300 characters)",
      file |-> LongNamed("We are hiring ... (300 characters)", "")],
     [isStr |-> FALSE, value |-> "gone.txt",
      file |-> File("gone.txt", FALSE, ".txt", Ok(<<>>))]}

OutputPaths ==
    {NonePath, PathOf("out/resume", ".pdf"), PathOf("out/resume", ".tex"),
     PathOf("out/resume", "")}

FsPaths == {PathStr(p) : p \in OutputPaths \ {NonePath}} \cup {"out/resume.tex"}

\* what a path of the file system holds
Absent == [kind |-> "absent", content |-> <<>>]

Markup(latex) == [kind |-> "markup", content |-> latex]

Artifact(output_format) == [kind |-> output_format, content |-> <<>>]

OutputFormats == {"pdf", "docx", "tex", "html"}

\* the arguments customize_resume_simple does not pass keep their defaults
Arguments ==
    [entry : {"customize_resume"},
     api_key : {"key"}, env_key : {NULL},
     resume_path : ResumePaths, job_description : JobDescriptions,
     output_path : OutputPaths, output_format : OutputFormats,
     custom_instructions : {NULL, "", "Emphasize leadership"},
     save_latex : BOOLEAN, two_pass : BOOLEAN]
    \cup
    [entry : {"customize_resume_simple"},
     api_key : {NULL, "key"}, env_key : {NULL, "key"},
     resume_path : ResumePaths, job_description : JobDescriptions,
     output_path : OutputPaths, output_format : OutputFormats,
     custom_instructions : {NULL},
     save_latex : {TRUE}, two_pass : BOOLEAN]

\* what the backend may answer to the draft request and to the validation request
DraftTexts ==
    {LabeledFence \o <<"\n", "d", "\n">> \o Fence,
     <<" ", "d", "\n">>,
     LabeledFence \o <<"\n", "d">>,
     <<>>}

ValidationTexts ==
    {<<"O", "K", "\n">> \o Fence \o <<"\n", "v", "\n">> \o Fence,
     <<"v">>,
     <<>>}

BackendFailure == Exc("ServerError", "503 UNAVAILABLE")

DraftOutcomes ==
    {Raises(BackendFailure), RespondsNone} \cup {Responds(t) : t \in DraftTexts}

ValidationOutcomes ==
    {Raises(BackendFailure), RespondsNone} \cup {Responds(t) : t \in ValidationTexts}

VARIABLES
    raw,        \* the raw response text handed to the cleaner
    cpc,        \* "input" | "cleaned" | "recleaned" | "wrapped" ("off" in Spec)
    cleaned,    \* _clean_latex_response(raw)
    recleaned,  \* _clean_latex_response(cleaned)
    wrapSep,    \* separator used when the payload is wrapped in fences
    viaLabeled, \* cleaned labeled-fence wrapping of raw
    viaGeneric, \* cleaned generic-fence wrapping of raw
    pc,         \* position of the run ("off" in SpecClean)
    args,       \* the arguments of the call
    result,     \* the result dict of customize_resume
    resume_text,
    latex_code,
    requests,   \* the generate_content requests issued, in order, each with
                \* what the backend did with it (failed, answer)
    calls,      \* the collaborators invoked, in order
    fs,         \* what each output path holds
    failure,    \* the exception a stage raised into the run, with its stage
    warning,    \* the failure the validation pass reported and swallowed
    parser_in,  \* SpecParse: the text and the job description handed to ResumeParser
    parser_pc,  \* "input" | "validated" | "parsed" | "resolved" ("off" elsewhere)
    parser_out, \* what validate_resume_content, parse_resume and
                \* parse_job_description returned on parser_in
    render_in,  \* SpecRender: the arguments of convert and what the environment
                \* does during the call
    render_pc,  \* "ready" | "running" | "returned" ("off" elsewhere)
    render_out, \* what convert returned or raised
    pending,    \* the effects of the call on the file system still to happen
    done,       \* the effects that have happened, in order
    disk,       \* the scratch directory, the temporary file and the output path
    dep_env,    \* SpecDeps: what probing each external tool does at present
    dep_pc,     \* position of check_dependencies ("off" elsewhere)
    dependencies, \* the dict check_dependencies builds
    dep_log,    \* the probes run by the current check, in order
    checks,     \* the number of calls of check_dependencies so far
    status      \* the dict check_system_requirements returned last

cvars == <<raw, cpc, cleaned, recleaned, wrapSep, viaLabeled, viaGeneric>>

pvars == <<pc, args, result, resume_text, latex_code, requests, calls, fs,
           failure, warning>>

avars == <<parser_in, parser_pc, parser_out>>

rvars == <<render_in, render_pc, render_out, pending, done, disk>>

dvars == <<dep_env, dep_pc, dependencies, dep_log, checks, status>>

vars == <<cvars, pvars, avars, rvars, dvars>>

\* the variables of the specifications that are not running
ParserOff ==
    /\ parser_in = <<>>
    /\ parser_pc = "off"
    /\ parser_out = <<>>

RenderOff ==
    /\ render_in = <<>>
    /\ render_pc = "off"
    /\ render_out = <<>>
    /\ pending = <<>>
    /\ done = <<>>
    /\ disk = <<>>

DepsOff ==
    /\ dep_env = <<>>
    /\ dep_pc = "off"
    /\ dependencies = <<>>
    /\ dep_log = <<>>
    /\ checks = 0
    /\ status = <<>>

(***************************************************************************)
(* SpecClean: the response cleaner applied to every raw response.          *)
(***************************************************************************)
PipelineOff ==
    /\ pc = "off"
    /\ args = <<>>
    /\ result = NULL
    /\ resume_text = <<>>
    /\ latex_code = <<>>
    /\ requests = <<>>
    /\ calls = <<>>
    /\ fs = [p \in FsPaths |-> Absent]
    /\ failure = NoFailure
    /\ warning = NULL

InitClean ==
    /\ ParserOff
    /\ RenderOff
    /\ DepsOff
    /\ raw \in {Flatten(ts) : ts \in TokenSeqs}
    /\ cpc = "input"
    /\ cleaned = <<>>
    /\ recleaned = <<>>
    /\ wrapSep = <<>>
    /\ viaLabeled = <<>>
    /\ viaGeneric = <<>>
    /\ PipelineOff

CleanResponse ==
    /\ cpc = "input"
    /\ cleaned' = _clean_latex_response(raw)
    /\ cpc' = "cleaned"
    /\ UNCHANGED <<raw, recleaned, wrapSep, viaLabeled, viaGeneric, pvars, avars, rvars, dvars>>

CleanAgain ==
    /\ cpc = "cleaned"
    /\ recleaned' = _clean_latex_response(cleaned)
    /\ cpc' = "recleaned"
    /\ UNCHANGED <<raw, cleaned, wrapSep, viaLabeled, viaGeneric, pvars, avars, rvars, dvars>>

CleanWrapped ==
    /\ cpc = "cleaned"
    /\ \E sep \in Separators :
          /\ wrapSep' = sep
          /\ viaLabeled' = _clean_latex_response(WrapLabeled(raw, sep))
          /\ viaGeneric' = _clean_latex_response(WrapGeneric(raw, sep))
    /\ cpc' = "wrapped"
    /\ UNCHANGED <<raw, cleaned, recleaned, pvars, avars, rvars, dvars>>

NextClean == CleanResponse \/ CleanAgain \/ CleanWrapped

SpecClean == InitClean /\ [][NextClean]_vars

(***************************************************************************)
(* Spec: one run of customize_resume, entered directly on a constructed    *)
(* ResumeCustomizer or through customize_resume_simple.                    *)
(***************************************************************************)
CleanerOff ==
    /\ raw = <<>>
    /\ cpc = "off"
    /\ cleaned = <<>>
    /\ recleaned = <<>>
    /\ wrapSep = <<>>
    /\ viaLabeled = <<>>
    /\ viaGeneric = <<>>

Init ==
    /\ CleanerOff
    /\ ParserOff
    /\ RenderOff
    /\ DepsOff
    /\ args \in Arguments
    /\ pc = IF args.entry = "customize_resume_simple" THEN "construct" ELSE "begin"
    /\ result = NULL
    /\ resume_text = <<>>
    /\ latex_code = <<>>
    /\ requests = <<>>
    /\ calls = <<>>
    /\ fs = [p \in FsPaths |-> Absent]
    /\ failure = NoFailure
    /\ warning = NULL

\* an exception e raised by a stage inside the try block of customize_resume:
\* lines 124-128 when the handler matches it, else it leaves the call
Raise(stage, e) ==
    /\ failure' = [stage |-> stage, exc |-> e]
    /\ IF HandlerCatches(e.cls)
       THEN /\ result' = [result EXCEPT !.error = e.msg]
            /\ pc' = "returned"
       ELSE /\ result' = result
            /\ pc' = "raised"

\* customize_resume_simple line 201: ResumeCustomizer(api_key=api_key), that is
\* GeminiResumeGenerator.__init__; nothing around it catches
Construct ==
    /\ pc = "construct"
    /\ LET api_key == IF Truthy(args.api_key) THEN args.api_key ELSE args.env_key
       IN  IF ~Truthy(api_key)
           THEN /\ failure' = [stage |-> "construct",
                               exc |-> Exc("ValueError",
                                  "API key must be provided either as argument or via GEMINI_API_KEY environment variable")]
                /\ pc' = "raised"
           ELSE /\ failure' = failure
                /\ pc' = "begin"
    /\ UNCHANGED <<cvars, avars, rvars, dvars, args, result, resume_text, latex_code, requests,
                   calls, fs, warning>>

\* customize_resume lines 52-57
Begin ==
    /\ pc = "begin"
    /\ result' = [success |-> FALSE, output_file |-> NULL, latex_file |-> NULL,
                  error |-> NULL]
    /\ pc' = "parse_resume"
    /\ UNCHANGED <<cvars, avars, rvars, dvars, args, resume_text, latex_code, requests, calls, fs,
                   failure, warning>>

\* customize_resume line 62
ParseResume ==
    /\ pc = "parse_resume"
    /\ calls' = Append(calls, "parse_resume")
    /\ LET r == parse_resume(args.resume_path).out
       IN  IF r.ok
           THEN /\ resume_text' = r.value
                /\ pc' = "validate"
                /\ UNCHANGED <<result, failure>>
           ELSE /\ Raise("extraction", r.exc)
                /\ UNCHANGED resume_text
    /\ UNCHANGED <<cvars, avars, rvars, dvars, args, latex_code, requests, fs, warning>>

\* customize_resume lines 64-65
ValidateResume ==
    /\ pc = "validate"
    /\ calls' = Append(calls, "validate_resume_content")
    /\ IF ~validate_resume_content(resume_text)
       THEN Raise("validation", Exc("ValueError", "Resume content is too short or empty"))
       ELSE /\ pc' = "parse_job"
            /\ UNCHANGED <<result, failure>>
    /\ UNCHANGED <<cvars, avars, rvars, dvars, args, resume_text, latex_code, requests, fs, warning>>

\* customize_resume line 71
ParseJobDescription ==
    /\ pc = "parse_job"
    /\ calls' = Append(calls, "parse_job_description")
    /\ LET r == parse_job_description(args.job_description).out
       IN  IF r.ok
           THEN /\ pc' = "draft"
                /\ UNCHANGED <<result, failure>>
           ELSE Raise("job_description", r.exc)
    /\ UNCHANGED <<cvars, avars, rvars, dvars, args, resume_text, latex_code, requests, fs, warning>>


\* customize_resume lines 82-94 into generate_customized_resume lines 57-66 or
\* generate_with_custom_instructions lines 282-288: the draft request
GenerateDraft ==
    /\ pc = "draft"
    /\ calls' = Append(calls, GenerateVia(args.custom_instructions))
    /\ \E outcome \in DraftOutcomes :
          /\ requests' = requests
                             \o draft_requests(GenerateVia(args.custom_instructions),
                                               outcome)
          /\ LET r == draft_pass(outcome)
             IN  IF ~r.ok
                 THEN /\ Raise("generation", r.exc)
                      /\ UNCHANGED latex_code
                 ELSE /\ latex_code' = r.value
                      /\ pc' = IF args.two_pass THEN "validation_pass" ELSE "save"
                      /\ UNCHANGED <<result, failure>>
    /\ UNCHANGED <<cvars, avars, rvars, dvars, args, resume_text, fs, warning>>

\* lines 69-71 (291-293) into _validate_and_enhance_latex, then the return of
\* line 73 (295) or the wrapping handler of lines 75-76 (297-298)
ValidationPass ==
    /\ pc = "validation_pass"
    /\ \E outcome \in ValidationOutcomes :
          /\ requests' = requests \o validation_requests(latex_code, outcome)
          /\ warning' = IF PassFails(outcome) THEN PassFailure(outcome) ELSE warning
          /\ LET r == _validate_and_enhance_latex(latex_code, outcome)
             IN  IF ~r.ok
                 THEN /\ Raise("generation",
                               Exc("Exception", GenerationErrorPrefix \o r.exc.msg))
                      /\ UNCHANGED latex_code
                 ELSE /\ latex_code' = r.value
                      /\ pc' = "save"
                      /\ UNCHANGED <<result, failure>>
    /\ UNCHANGED <<cvars, avars, rvars, dvars, args, resume_text, calls, fs>>

\* what open(output_path, "w") and the write in save_latex do
SaveOutcomes == {"ok", "denied"}

\* customize_resume lines 102-107, with LaTeXConverter.save_latex
SaveLatex ==
    /\ pc = "save"
    /\ IF args.output_path = NonePath
       THEN /\ Raise("save", Exc("TypeError",
                       "expected str, bytes or os.PathLike object, not NoneType"))
            /\ UNCHANGED <<calls, fs>>
       ELSE IF should_save(args.save_latex, args.output_format)
       THEN LET latex_path == with_suffix(args.output_path, ".tex")
            IN  /\ calls' = Append(calls, "save_latex")
                /\ \E o \in SaveOutcomes :
                      IF o = "ok"
                      THEN /\ fs' = [fs EXCEPT ![PathStr(latex_path)] = Markup(latex_code)]
                           /\ result' = [result EXCEPT !.latex_file = PathStr(latex_path)]
                           /\ pc' = "route"
                           /\ UNCHANGED failure
                      ELSE /\ Raise("save", Exc("PermissionError",
                                      "[Errno 13] Permission denied: "
                                         \o PathStr(latex_path)))
                           /\ UNCHANGED fs
       ELSE /\ pc' = "route"
            /\ UNCHANGED <<calls, fs, result, failure>>
    /\ UNCHANGED <<cvars, avars, rvars, dvars, args, resume_text, latex_code, requests, warning>>

RECURSIVE Repeat(_, _)
Repeat(x, n) == IF n = 0 THEN <<>> ELSE <<x>> \o Repeat(x, n - 1)

\* a plausible slip: success is declared, the output file is not recorded
tex_result_unrecorded(res) == [res EXCEPT !.success = TRUE]

\* customize_resume lines 111-112
tex_result(res) == [res EXCEPT !.output_file = res.latex_file, !.success = TRUE]

\* customize_resume lines 110-112: the markup is the output
FinishTex ==
    /\ pc = "route"
    /\ ~needs_render(args.output_format)
    /\ result' = tex_result(result)
    /\ pc' = "returned"
    /\ UNCHANGED <<cvars, avars, rvars, dvars, args, resume_text, latex_code, requests, calls, fs,
                   failure, warning>>

\* customize_resume lines 113-122, with LaTeXConverter.convert
Render ==
    /\ pc = "route"
    /\ needs_render(args.output_format)
    /\ \E e \in RenderOutcomes(args.output_format) :
          LET out == PathStr(args.output_path)
              c   == convert(out, args.output_format, e.w, e.o1, e.o2, e.copy, e.po)
          IN  /\ calls' = calls \o <<"convert">>
                             \o Repeat(ToolOf(args.output_format), c.invocations)
              /\ fs' = IF c.wrote
                       THEN [fs EXCEPT ![out] = Artifact(args.output_format)]
                       ELSE fs
              /\ IF c.res.ok
                 THEN /\ result' = [result EXCEPT !.output_file = c.res.value,
                                                  !.success = TRUE]
                      /\ pc' = "returned"
                      /\ UNCHANGED failure
                 ELSE Raise("render", c.res.exc)
    /\ UNCHANGED <<cvars, avars, rvars, dvars, args, resume_text, latex_code, requests, warning>>

Next ==
    \/ Construct
    \/ Begin
    \/ ParseResume
    \/ ValidateResume
    \/ ParseJobDescription
    \/ GenerateDraft
    \/ ValidationPass
    \/ SaveLatex
    \/ FinishTex
    \/ Render

Spec == Init /\ [][Next]_vars

(***************************************************************************)
(* SpecParse: ResumeParser on its own, over texts of every shape around    *)
(* the 100-character threshold and over files of every kind.               *)
(***************************************************************************)
MaxRuns == 3

RunLengths == {1, 50, 99, 100}

Runs == {Run(ws, n) : ws \in BOOLEAN, n \in RunLengths}

Texts == UNION {[1..k -> Runs] : k \in 0..MaxRuns}

Suffixes == {".txt", ".TXT", ".pdf", ".docx", ".DOC", ".md", ""}

Bodies == {Ok(LongText), Err(Exc("PermissionError", "[Errno 13] Permission denied"))}

ParserFiles ==
    {File("cv" \o sfx, ex, sfx, b) : sfx \in Suffixes, ex \in BOOLEAN, b \in Bodies}
    \cup {LongNamed("Experienced engineer ... (300 characters)", ""),
          LongNamed("Experienced engineer ... (300 characters).txt", ".txt")}

ParserJobs ==
    {[isStr |-> str, value |-> f.name, file |-> f] :
        str \in BOOLEAN, f \in ParserFiles}
    \cup {[isStr |-> FALSE, value |-> NULL, file |-> NoneFile]}

NotParsed == Parsed(Ok(<<>>), <<>>)

InitParse ==
    /\ CleanerOff
    /\ PipelineOff
    /\ RenderOff
    /\ DepsOff
    /\ \/ parser_in \in [text : Texts, job : {CHOOSE j \in ParserJobs : j.file = NoneFile}]
       \/ parser_in \in [text : {LongText}, job : ParserJobs]
    /\ parser_pc = "input"
    /\ parser_out = [valid |-> FALSE, parsed |-> NotParsed, resolved |-> NotParsed]

\* validate_resume_content(text)
Validate ==
    /\ parser_pc = "input"
    /\ parser_out' = [parser_out EXCEPT
                         !.valid = validate_resume_content(parser_in.text)]
    /\ parser_pc' = "validated"
    /\ UNCHANGED <<cvars, pvars, rvars, dvars, parser_in>>

\* parse_resume(file_path) on the path the job description names
ParseFile ==
    /\ parser_pc = "validated"
    /\ parser_out' = [parser_out EXCEPT
                         !.parsed = parse_resume(parser_in.job.file)]
    /\ parser_pc' = "parsed"
    /\ UNCHANGED <<cvars, pvars, rvars, dvars, parser_in>>

\* parse_job_description(job_desc)
ResolveJob ==
    /\ parser_pc = "parsed"
    /\ parser_out' = [parser_out EXCEPT
                         !.resolved = parse_job_description(parser_in.job)]
    /\ parser_pc' = "resolved"
    /\ UNCHANGED <<cvars, pvars, rvars, dvars, parser_in>>

NextParse == Validate \/ ParseFile \/ ResolveJob

SpecParse == InitParse /\ [][NextParse]_vars

(***************************************************************************)
(* Vocabulary of the claims about a run.                                   *)
(***************************************************************************)
InCalls(name) == \E i \in DOMAIN calls : calls[i] = name

\* the result dict exists: customize_resume has been entered
HasResult ==
    /\ pc \notin {"off", "construct", "begin"}
    /\ ~(pc = "raised" /\ failure.stage = "construct")

\* the generation stage has returned markup to customize_resume
GenerationSucceeded ==
    /\ pc \in {"save", "route", "returned", "raised"}
    /\ Len(requests) >= 1
    /\ failure.stage \in {"none", "save", "render"}

\* the expected source path of the run
SourcePath == PathStr(with_suffix(args.output_path, ".tex"))

SourceWanted == args.save_latex \/ args.output_format = "tex"

TooShort(text) == TextLen(TextStrip(text)) < 100

C2_AbortBeforeGeneration ==
    (InCalls("validate_resume_content") /\ TooShort(resume_text)) =>
        /\ pc = "returned"
        /\ result.success = FALSE
        /\ result.error = "Resume content is too short or empty"
        /\ requests = <<>>
        /\ ~InCalls("generate_customized_resume")
        /\ ~InCalls("generate_with_custom_instructions")
        /\ ~InCalls("parse_job_description")
        /\ ~InCalls("save_latex")
        /\ ~InCalls("convert")
        /\ \A p \in FsPaths : fs[p] = Absent
        /\ result.latex_file = NULL
        /\ result.output_file = NULL

\* a 99-character resume has been validated and the run has ended
C2_Witness ==
    /\ pc = "returned"
    /\ InCalls("validate_resume_content")
    /\ TextLen(TextStrip(resume_text)) = 99
    /\ args.custom_instructions = "Emphasize leadership"

(***************************************************************************)
(* C3: with two_pass, a draft request that fails makes generation fail with*)
(* the wrapped generation error, the run reports success false, and no     *)
(* validation request is issued; through either generation entry point.    *)
(***************************************************************************)
C3_DraftFailureIsFatal ==
    (args.two_pass /\ Len(requests) >= 1 /\ requests[1].failed) =>
        /\ requests[1].pass = "draft"
        /\ requests[1].via \in {"generate_customized_resume",
                                "generate_with_custom_instructions"}
        /\ Len(requests) = 1
        /\ pc = "returned"
        /\ failure.stage = "generation"
        /\ result.success = FALSE
        /\ result.error \in {GenerationErrorPrefix \o BackendFailure.msg,
                             GenerationErrorPrefix \o NoneTextMsg}

\* the draft request of generate_with_custom_instructions raised under two_pass
C3_Witness ==
    /\ args.two_pass
    /\ Len(requests) = 1
    /\ requests[1].failed
    /\ requests[1].via = "generate_with_custom_instructions"
    /\ result.error = GenerationErrorPrefix \o BackendFailure.msg

(***************************************************************************)
(* C4: with two_pass, a validation pass that fails (the request or the     *)
(* handling of its response) is not fatal: generation returns exactly the  *)
(* cleaned draft output, no generation error reaches the run, and the run  *)
(* goes on to the save and render steps.                                   *)
(***************************************************************************)
C4_ValidationFailureNonFatal ==
    (Len(requests) = 2 /\ requests[2].failed) =>
        /\ requests[2].pass = "validation"
        /\ latex_code = _clean_latex_response(requests[1].answer)
        /\ failure.stage \in {"none", "save", "render"}
        /\ pc \in {"save", "route", "returned"}
        /\ warning # NULL

\* a run whose validation request raised has still ended with success
C4_Witness ==
    /\ Len(requests) = 2
    /\ requests[2].failed
    /\ pc = "returned"
    /\ result.success
    /\ args.output_format = "pdf"
    /\ latex_code = <<"d">>

(***************************************************************************)
(* C5 as stated: with format tex and a successful generation, the run      *)
(* saves the markup, returns success with output_file equal to latex_file, *)
(* and never invokes the converter, whatever save_latex is (read for calls *)
(* whose output path is a path).                                           *)
(***************************************************************************)
C5_TexAlwaysSucceeds ==
    (/\ pc = "returned"
     /\ args.output_format = "tex"
     /\ args.output_path # NonePath
     /\ GenerationSucceeded) =>
        /\ InCalls("save_latex")
        /\ result.success
        /\ result.output_file = result.latex_file
        /\ ~InCalls("convert")

(***************************************************************************)
(* C5 amended: with format tex and a successful generation, the converter  *)
(* is never invoked, whatever save_latex is; when the source save completes*)
(* without raising, the run returns success with output_file equal to      *)
(* latex_file, the saved source path; when the save raises, the run returns*)
(* success false.                                                          *)
(***************************************************************************)
C5_TexWhenSaved ==
    (pc = "returned" /\ args.output_format = "tex" /\ GenerationSucceeded) =>
        /\ ~InCalls("convert")
        /\ ~InCalls("pdflatex")
        /\ ~InCalls("pandoc")
        /\ failure.stage \in {"none", "save"}
        /\ failure.stage = "none" =>
              /\ InCalls("save_latex")
              /\ result.success
              /\ result.latex_file = SourcePath
              /\ result.output_file = result.latex_file
              /\ fs[SourcePath] = Markup(latex_code)
        /\ failure.stage = "save" => ~result.success

\* a tex run with save_latex false has saved the markup and returned success
C5_Witness ==
    /\ pc = "returned"
    /\ args.output_format = "tex"
    /\ ~args.save_latex
    /\ result.success
    /\ result.output_file = "out/resume.tex"
    /\ args.output_path = PathOf("out/resume", ".pdf")

(***************************************************************************)
(* C6: when save_latex is true or the format is tex, the markup is saved   *)
(* to the output path with suffix .tex before any render attempt, and that *)
(* path stays in latex_file when the render then fails; when save_latex is *)
(* false and the format is not tex, no source file is written and          *)
(* latex_file stays null.                                                  *)
(***************************************************************************)
SaveBeforeConvert ==
    \A j \in DOMAIN calls :
        calls[j] = "convert" => \E i \in 1..(j - 1) : calls[i] = "save_latex"

C6_SourceKept ==
    /\ (HasResult /\ SourceWanted /\ pc = "route") =>
          /\ result.latex_file = SourcePath
          /\ fs[SourcePath] = Markup(latex_code)
          /\ ~InCalls("convert")
    /\ (HasResult /\ SourceWanted /\ InCalls("convert")) =>
          /\ SaveBeforeConvert
          /\ result.latex_file = SourcePath
    /\ (HasResult /\ SourceWanted /\ failure.stage = "render") =>
          /\ result.success = FALSE
          /\ result.latex_file # NULL
    /\ (HasResult /\ ~SourceWanted) =>
          /\ ~InCalls("save_latex")
          /\ result.latex_file = NULL
          /\ \A p \in FsPaths : fs[p].kind # "markup"

\* a pdf render failed after the source had been saved
C6_Witness ==
    /\ pc = "returned"
    /\ args.save_latex
    /\ args.output_format = "pdf"
    /\ failure.stage = "render"
    /\ result.latex_file = "out/resume.tex"
    /\ fs["out/resume.tex"] = Markup(latex_code)

(***************************************************************************)
(* C7: no error leaves a public entry point of the pipeline as a raised    *)
(* fault, customize_resume_simple without any API key included.            *)
(***************************************************************************)
C7_NoRaisedFault == pc # "raised"

(***************************************************************************)
(* C8: the cleaned response neither starts with an opening fence nor ends  *)
(* with a closing fence, whatever the raw response was.                    *)
(***************************************************************************)
C8_NoEnclosingFence ==
    cpc = "cleaned" => ~StartsWith(cleaned, Fence) /\ ~EndsWith(cleaned, Fence)

(***************************************************************************)
(* C9: cleaning is idempotent: cleaning the cleaned response changes       *)
(* nothing.                                                                *)
(***************************************************************************)
C9_Idempotent == cpc = "recleaned" => recleaned = cleaned

\* a fenced response with padding inside the fence has been cleaned twice
C9_Witness ==
    /\ cpc = "recleaned"
    /\ Contains(raw, Fence)
    /\ cleaned # raw
    /\ cleaned # <<>>

(***************************************************************************)
(* C10 as stated: for every payload, the labeled-fence wrapping, the       *)
(* generic-fence wrapping and the bare payload clean to the same string.   *)
(***************************************************************************)
C10_AllPayloads ==
    cpc = "wrapped" => viaLabeled = cleaned /\ viaGeneric = cleaned

(***************************************************************************)
(* C10 amended: for every payload that contains no backtick and does not   *)
(* begin with the label, the three cleanings agree and equal the trimmed   *)
(* payload.                                                                *)
(***************************************************************************)
PlainPayload(P) == ~Contains(P, <<BT>>) /\ ~StartsWith(P, Label)

C10_PlainPayloads ==
    (cpc = "wrapped" /\ PlainPayload(raw)) =>
        /\ viaLabeled = cleaned
        /\ viaGeneric = cleaned
        /\ cleaned = strip(raw)

C10_Witness ==
    /\ cpc = "wrapped"
    /\ PlainPayload(raw)
    /\ raw # strip(raw)
    /\ cleaned # <<>>
    /\ viaLabeled = cleaned
    /\ wrapSep = <<>>

(***************************************************************************)
(* C11: the cleaner applies its strategies in fixed priority: with a       *)
(* labeled opening fence, the result is the trimmed span from the first    *)
(* labeled fence to the next fence after it, even when a generic fence     *)
(* comes earlier; otherwise, with any fence, the trimmed span from the     *)
(* first fence to the next fence; otherwise the trimmed raw text.  Prose   *)
(* outside the span never appears in the result.  (A span with no closing  *)
(* fence is read as running to the end of the text.)                       *)
(***************************************************************************)
SpanAfter(text, opening) ==
    LET from == Find(text, opening, 0) + Len(opening)
        to   == Find(text, Fence, from)
    IN  IF to = -1 THEN Slice(text, from, Len(text)) ELSE Slice(text, from, to)

ExpectedSpan(text) ==
    IF Contains(text, LabeledFence) THEN strip(SpanAfter(text, LabeledFence))
    ELSE IF Contains(text, Fence) THEN strip(SpanAfter(text, Fence))
    ELSE strip(text)

C11_FixedPriority == cpc = "cleaned" => cleaned = ExpectedSpan(raw)

\* the part of C11 that the code keeps: every response whose opening fence is closed
OpeningClosed(text) ==
    IF Contains(text, LabeledFence)
    THEN Find(text, Fence, Find(text, LabeledFence, 0) + 8) # -1
    ELSE Contains(text, Fence) => Find(text, Fence, Find(text, Fence, 0) + 3) # -1

C11_ClosedFences ==
    (cpc = "cleaned" /\ OpeningClosed(raw)) => cleaned = ExpectedSpan(raw)
(***************************************************************************)
(* SpecRender: LaTeXConverter.convert on its own, its effects on the file  *)
(* system taking place one at a time.                                      *)
(***************************************************************************)
\* what the output path holds before the call
OutputBefore == {"absent", "old"}

RenderInput(output_format, before, w, o1, o2, copy, po) ==
    [output_format |-> output_format, output_path |-> "out/resume." \o output_format,
     before |-> before, w |-> w, o1 |-> o1, o2 |-> o2, copy |-> copy, po |-> po]

RenderInputs ==
    {RenderInput("pdf", b, w, o1, o2, copy, Ok("docx")) :
        b \in OutputBefore, w \in WriteOutcomes, o1 \in InvocationOutcomes,
        o2 \in InvocationOutcomes, copy \in CopyOutcomes}
    \cup {RenderInput("docx", b, w, "pdf", "pdf", "ok", po) :
        b \in OutputBefore, w \in WriteOutcomes, po \in PandocOutcomes}
    \cup {RenderInput("html", b, "ok", "pdf", "pdf", "ok", Ok("docx")) :
        b \in OutputBefore}

NoScratch == [exists |-> FALSE, files |-> {}]

\* what pdflatex leaves in the output directory
Leaves(o, files) ==
    IF o \in {"pdf", "pdf_errors"}
    THEN files \cup {"resume.pdf", "resume.log", "resume.aux"}
    ELSE IF o \in {"no_pdf_log_plain", "no_pdf_log_error"}
    THEN (files \ {"resume.pdf"}) \cup {"resume.log"}
    ELSE IF o = "no_pdf_no_log" THEN files \ {"resume.pdf", "resume.log"}
    ELSE IF o = "timeout" THEN files \cup {"resume.log"}
    ELSE files

\* the effect of one event on the file system
Apply(e, d) ==
    IF e = "mkdtemp" THEN [d EXCEPT !.scratch = [exists |-> TRUE, files |-> {}]]
    ELSE IF e \in {"write_tex", "write_tex_failed"}
    THEN [d EXCEPT !.scratch.files = @ \cup {"resume.tex"}]
    ELSE IF e \in {"pdflatex:" \o o : o \in InvocationOutcomes}
    THEN LET o == CHOOSE x \in InvocationOutcomes : e = "pdflatex:" \o x
         IN  [d EXCEPT !.scratch.files = Leaves(o, @)]
    ELSE IF e = "copy" THEN [d EXCEPT !.output = "pdf"]
    ELSE IF e = "rmtree" THEN [d EXCEPT !.scratch = NoScratch]
    ELSE IF e = "mkstemp" THEN [d EXCEPT !.temp = TRUE]
    ELSE IF e = "pandoc" THEN [d EXCEPT !.output = "docx"]
    ELSE IF e = "unlink" THEN [d EXCEPT !.temp = FALSE]
    ELSE d

NotRendered == Block(0, FALSE, Ok(""), <<>>)

InitRender ==
    /\ CleanerOff
    /\ PipelineOff
    /\ ParserOff
    /\ DepsOff
    /\ render_in \in RenderInputs
    /\ render_pc = "ready"
    /\ render_out = NotRendered
    /\ pending = <<>>
    /\ done = <<>>
    /\ disk = [scratch |-> NoScratch, temp |-> FALSE, output |-> render_in.before]

\* convert(latex_code, output_path, output_format) is called
Call ==
    /\ render_pc = "ready"
    /\ LET c == convert(render_in.output_path, render_in.output_format,
                        render_in.w, render_in.o1, render_in.o2,
                        render_in.copy, render_in.po)
       IN  /\ render_out' = c
           /\ pending' = c.events
    /\ render_pc' = "running"
    /\ UNCHANGED <<cvars, pvars, avars, dvars, render_in, done, disk>>

\* the next effect of the call takes place
Effect ==
    /\ render_pc = "running"
    /\ pending # <<>>
    /\ disk' = Apply(Head(pending), disk)
    /\ done' = Append(done, Head(pending))
    /\ pending' = Tail(pending)
    /\ UNCHANGED <<cvars, pvars, avars, dvars, render_in, render_pc, render_out>>

\* the call returns or raises
Return ==
    /\ render_pc = "running"
    /\ pending = <<>>
    /\ render_pc' = "returned"
    /\ UNCHANGED <<cvars, pvars, avars, dvars, render_in, render_out, pending,
                   done, disk>>

NextRender == Call \/ Effect \/ Return

SpecRender == InitRender /\ [][NextRender]_vars

(***************************************************************************)
(* ResumeParser                                                            *)
(***************************************************************************)
\* the number of characters of a text that are not whitespace
RECURSIVE NonWhitespace(_)
NonWhitespace(t) ==
    IF t = <<>> THEN 0
    ELSE (IF Head(t).ws THEN 0 ELSE Head(t).n) + NonWhitespace(Tail(t))

Validated == parser_pc \in {"validated", "parsed", "resolved"}

\* C12: validate_resume_content returns true exactly when the text holds at
\* least 100 characters that are not whitespace.
C12_NonWhitespaceCount ==
    Validated => (parser_out.valid <=> NonWhitespace(parser_in.text) >= 100)

\* what the code does decide on: the length of the stripped text, interior
\* whitespace included
C12_StrippedLength ==
    Validated => (parser_out.valid <=> TextLen(TextStrip(parser_in.text)) >= 100)

ReturnsLiteral(job, r) ==
    /\ r.out.ok
    /\ r.out.value = job.value
    /\ r.ran = <<>>

\* C13: a string that names no existing path comes back unchanged and no file
\* is read; a value that names an existing path yields what parse_resume yields
\* for it.
C13_LiteralOrParsed ==
    parser_pc = "resolved" =>
        LET job == parser_in.job
        IN  /\ (job.isStr /\ ~job.file.exists) =>
                    ReturnsLiteral(job, parser_out.resolved)
            /\ job.file.exists => parser_out.resolved = parser_out.parsed

\* the same, for the strings the file system can look up
C13_ShortNames ==
    (parser_pc = "resolved" /\ ~StatFails(parser_in.job.file)) =>
        LET job == parser_in.job
        IN  /\ (job.isStr /\ ~job.file.exists) =>
                    ReturnsLiteral(job, parser_out.resolved)
            /\ job.file.exists => parser_out.resolved = parser_out.parsed

FailsWith(r, cls) == ~r.out.ok /\ r.out.exc.cls = cls /\ r.ran = <<>>

Recognized(f) == Lower(f.suffix) \in {".txt", ".pdf", ".docx", ".doc"}

ParseContract(f, r) ==
    /\ ~f.exists => FailsWith(r, "FileNotFoundError")
    /\ (f.exists /\ ~Recognized(f)) => FailsWith(r, "ValueError")
    /\ (f.exists /\ Recognized(f)) <=> Len(r.ran) = 1
    /\ Len(r.ran) <= 1

\* C14: a path that does not exist fails with NotFound whatever its extension,
\* an existing path with an unrecognized extension fails with
\* UnsupportedFormat, neither reads the file, and exactly one extractor runs
\* on an existing path with a recognized extension.
C14_NotFoundFirst ==
    (parser_pc \in {"parsed", "resolved"} /\ parser_in.job.file # NoneFile) =>
        ParseContract(parser_in.job.file, parser_out.parsed)

\* the same, for the paths the file system can look up
C14_ShortNames ==
    (/\ parser_pc \in {"parsed", "resolved"}
     /\ parser_in.job.file # NoneFile
     /\ ~StatFails(parser_in.job.file)) =>
        ParseContract(parser_in.job.file, parser_out.parsed)

(***************************************************************************)
(* SpecDeps: LaTeXConverter.check_dependencies, called again and again in  *)
(* an environment that changes between the calls.                          *)
(***************************************************************************)
MaxChecks == 2

\* what subprocess.run(["pdflatex", "--version"], timeout=5) does: returns with
\* exit status 0 or not, or raises FileNotFoundError, TimeoutExpired, or the
\* PermissionError of a pdflatex on the PATH that may not be executed
PdflatexProbes == {"zero", "nonzero", "absent", "timeout", "denied"}

\* what pypandoc.get_pandoc_version() does: returns, or raises the OSError of
\* an absent pandoc or anything else
PandocProbes == {"version", "absent", "failed"}

\* gemini_client.api_key: the constructor leaves a key there, a caller may
\* clear the attribute afterwards
ApiKeys == {"key", ""}

Environments == [pdflatex : PdflatexProbes, pandoc : PandocProbes, api_key : ApiKeys]

\* a plausible slip: the status of the previous call is the starting point
initial_dependencies_cached(previous) == previous

\* check_dependencies line 204: every call starts from both tools absent
initial_dependencies(previous) == [pdflatex |-> FALSE, pandoc |-> FALSE]

\* check_system_requirements lines 150-153
api_key_set(api_key) == api_key # ""

\* check_system_requirements lines 167-176
requirements(deps, key_set) ==
    [pdflatex |-> deps.pdflatex,
     pandoc |-> deps.pandoc,
     api_key |-> key_set,
     pdf_support |-> deps.pdflatex,
     docx_support |-> deps.pandoc,
     all_ready |-> deps.pdflatex /\ deps.pandoc /\ key_set]

NoStatus == requirements([pdflatex |-> FALSE, pandoc |-> FALSE], FALSE)

\* the classes  except (FileNotFoundError, subprocess.TimeoutExpired)  names
ProbeHandlerCatches(o) == o \in {"absent", "timeout"}

InitDeps ==
    /\ CleanerOff
    /\ PipelineOff
    /\ ParserOff
    /\ RenderOff
    /\ dep_env \in {e \in Environments : e.api_key = "key"}
    /\ dep_pc = "idle"
    /\ dependencies = [pdflatex |-> FALSE, pandoc |-> FALSE]
    /\ dep_log = <<>>
    /\ checks = 0
    /\ status = NoStatus

\* check_dependencies line 204, called directly or by check_system_requirements
\* (line 139)
EnterCheck ==
    /\ dep_pc = "idle"
    /\ checks < MaxChecks
    /\ checks' = checks + 1
    /\ dependencies' = initial_dependencies(dependencies)
    /\ dep_log' = <<>>
    /\ dep_pc' = "pdflatex"
    /\ UNCHANGED <<cvars, pvars, avars, rvars, dep_env, status>>

\* check_dependencies lines 207-213
ProbePdflatex ==
    /\ dep_pc = "pdflatex"
    /\ dep_log' = Append(dep_log, "pdflatex")
    /\ IF dep_env.pdflatex \in {"zero", "nonzero"}
       THEN /\ dependencies' = [dependencies EXCEPT
                                   !.pdflatex = (dep_env.pdflatex = "zero")]
            /\ dep_pc' = "pandoc"
       ELSE IF ProbeHandlerCatches(dep_env.pdflatex)
       THEN /\ dep_pc' = "pandoc"
            /\ UNCHANGED dependencies
       ELSE /\ dep_pc' = "raised"
            /\ UNCHANGED dependencies
    /\ UNCHANGED <<cvars, pvars, avars, rvars, dep_env, checks, status>>

\* check_dependencies lines 216-220
ProbePandoc ==
    /\ dep_pc = "pandoc"
    /\ dep_log' = Append(dep_log, "pandoc")
    /\ dependencies' = [dependencies EXCEPT !.pandoc = (dep_env.pandoc = "version")]
    /\ dep_pc' = "return"
    /\ UNCHANGED <<cvars, pvars, avars, rvars, dep_env, checks, status>>

\* check_dependencies line 222
ReturnDependencies ==
    /\ dep_pc = "return"
    /\ dep_pc' = "returned"
    /\ UNCHANGED <<cvars, pvars, avars, rvars, dep_env, dependencies, dep_log, checks,
                   status>>

\* check_system_requirements lines 150-176, once check_dependencies (line 139)
\* has returned to it
ReportRequirements ==
    /\ dep_pc = "returned"
    /\ status' = requirements(dependencies, api_key_set(dep_env.api_key))
    /\ dep_pc' = "reported"
    /\ UNCHANGED <<cvars, pvars, avars, rvars, dep_env, dependencies, dep_log, checks>>

\* between two calls a tool is installed, removed or breaks, or the key is
\* cleared or set again
EnvironmentChanges ==
    /\ dep_pc \in {"returned", "raised", "reported"}
    /\ dep_env' \in Environments
    /\ dep_pc' = "idle"
    /\ UNCHANGED <<cvars, pvars, avars, rvars, dependencies, dep_log, checks, status>>

NextDeps ==
    \/ EnterCheck
    \/ ProbePdflatex
    \/ ProbePandoc
    \/ ReturnDependencies
    \/ ReportRequirements
    \/ EnvironmentChanges

SpecDeps == InitDeps /\ [][NextDeps]_vars

(***************************************************************************)
(* LaTeXConverter                                                          *)
(***************************************************************************)
Returned(output_format) ==
    render_pc = "returned" /\ render_in.output_format = output_format

\* the invocation left resume.pdf in the scratch directory
LeftArtifact(o) == o \in {"pdf", "pdf_errors"}

\* the compiler invocations among the events that left the artifact
RECURSIVE Compiled(_)
Compiled(seq) ==
    IF seq = <<>> THEN 0
    ELSE (IF Head(seq) \in {"pdflatex:pdf", "pdflatex:pdf_errors"} THEN 1 ELSE 0)
         + Compiled(Tail(seq))

RECURSIVE Count(_, _)
Count(seq, e) ==
    IF seq = <<>> THEN 0
    ELSE (IF Head(seq) = e THEN 1 ELSE 0) + Count(Tail(seq), e)

FailedInvocation ==
    IF ~LeftArtifact(render_in.o1) THEN render_in.o1
    ELSE IF ~LeftArtifact(render_in.o2) THEN render_in.o2
    ELSE "none"

\* C16: a PDF render writes the output path only after both compiler
\* invocations have left the artifact; when the compiler is missing, fails or
\* times out, the output path holds what it held before the call.
C16_OutputAfterBoth ==
    (render_pc # "off" /\ render_in.output_format = "pdf") =>
        /\ Count(done, "copy") > 0 => Compiled(done) = 2
        /\ disk.output # render_in.before => Compiled(done) = 2
        /\ FailedInvocation # "none" => disk.output = render_in.before

C16_Witness ==
    /\ Returned("pdf")
    /\ render_in.before = "old"
    /\ render_in.w = "ok" /\ render_in.o1 = "pdf" /\ render_in.o2 = "no_pdf_log_error"
    /\ Compiled(done) = 1
    /\ ~render_out.res.ok
    /\ disk.output = "old"

\* the message a failed PDF render owes to a failed compiler invocation
KindOf(o) ==
    IF o = "timeout" THEN "PDF compilation timed out after 30 seconds"
    ELSE IF o = "not_found"
    THEN "pdflatex not found. Please install LaTeX (e.g., TeX Live, MiKTeX) to enable PDF generation."
    ELSE IF o = "no_pdf_log_error"
    THEN "Error converting LaTeX to PDF: LaTeX Error: ! Undefined control sequence."
    ELSE "Error converting LaTeX to PDF: PDF compilation failed"

FailedPdfRender ==
    Returned("pdf") /\ render_in.w = "ok" /\ ~render_out.res.ok

\* C17: a failed PDF render reports the timeout kind for a timeout, the
\* tool-missing kind when the compiler cannot be located, and a compilation
\* failure carrying the first error line of the log (else the generic message)
\* when the artifact is absent; tool-missing is reported for no other cause.
C17_KindByCause ==
    FailedPdfRender =>
        /\ FailedInvocation # "none" =>
               render_out.res.exc.msg = KindOf(FailedInvocation)
        /\ render_out.res.exc.msg = KindOf("not_found") =>
               FailedInvocation = "not_found"

\* the part of it about the failures of the compiler itself
C17_CompilerFailures ==
    (FailedPdfRender /\ FailedInvocation # "none") =>
        render_out.res.exc.msg = KindOf(FailedInvocation)

\* C18: once a Word-document render has returned or raised, the temporary
\* markup file made for the call no longer exists.
C18_TempFileDeleted == Returned("docx") => ~disk.temp

\* the same, for the calls that got the markup written
C18_AfterConversion ==
    (Returned("docx") /\ render_in.w = "ok") => ~disk.temp

\* the converter failed because pandoc is not installed
PandocAbsent(po) == ~po.ok /\ po.exc.cls = "OSError"

\* C19: a failed Word-document render reports tool-missing exactly when the
\* converter failed because pandoc is absent, and the generic conversion error
\* for every other converter failure.
C19_MissingIffAbsent ==
    (Returned("docx") /\ render_in.w = "ok" /\ ~render_out.res.ok) =>
        /\ render_out.res.exc.msg =
               "Pandoc not found. Please install Pandoc to enable Word document generation. Visit: https://pandoc.org/installing.html"
           <=> PandocAbsent(render_in.po)
        /\ ~PandocAbsent(render_in.po) =>
               render_out.res.exc.msg =
                   "Error converting LaTeX to DOCX: " \o render_in.po.exc.msg

\* C20: check_dependencies never raises, whatever probing a tool does; it
\* returns a flag per tool, and a failed compiler probe does not keep the
\* converter probe from running.
C20_NeverRaises ==
    /\ dep_pc # "raised"
    /\ dep_pc = "returned" =>
           /\ dependencies.pdflatex \in BOOLEAN
           /\ dependencies.pandoc \in BOOLEAN
           /\ dep_log = <<"pdflatex", "pandoc">>

\* the same, for the probe failures the handler names
C20_HandledProbes ==
    (dep_pc \in {"returned", "raised"} /\ dep_env.pdflatex # "denied") =>
        /\ dep_pc = "returned"
        /\ dependencies.pdflatex = (dep_env.pdflatex = "zero")
        /\ dependencies.pandoc = (dep_env.pandoc = "version")
        /\ dep_log = <<"pdflatex", "pandoc">>

(***************************************************************************)
(* ResumeCustomizer.check_system_requirements                              *)
(***************************************************************************)
\* C21: every report of check_system_requirements gives the presence of the
\* compiler, of the converter and of the key as they are at that call, each
\* whatever the other two are, and all_ready exactly when the three are true.
C21_FreshReport ==
    dep_pc = "reported" =>
        /\ status.pdflatex = (dep_env.pdflatex = "zero")
        /\ status.pandoc = (dep_env.pandoc = "version")
        /\ status.api_key = (dep_env.api_key = "key")
        /\ status.all_ready = (/\ dep_env.pdflatex = "zero"
                               /\ dep_env.pandoc = "version"
                               /\ dep_env.api_key = "key")

C21_Witness ==
    /\ dep_pc = "reported"
    /\ checks = 2
    /\ dep_env.pdflatex = "timeout"
    /\ status.pandoc /\ status.api_key
    /\ ~status.pdflatex /\ ~status.all_ready

(***************************************************************************)
(* The two compiler invocations of a PDF render.                           *)
(***************************************************************************)
\* the compiler invocations among the events, whatever they did
RECURSIVE Invocations(_)
Invocations(seq) ==
    IF seq = <<>> THEN 0
    ELSE (IF Head(seq) \in {"pdflatex:not_found", "pdflatex:timeout",
                            "pdflatex:no_pdf_no_log", "pdflatex:no_pdf_log_plain",
                            "pdflatex:no_pdf_log_error", "pdflatex:pdf",
                            "pdflatex:pdf_errors"}
          THEN 1 ELSE 0)
         + Invocations(Tail(seq))

\* C22: a PDF render invokes the compiler at most twice, exactly twice when it
\* succeeds, a second time only when the first invocation left the artifact;
\* an invocation that times out or leaves no artifact ends the call; and
\* whether the call goes on is decided by the artifact alone, whatever the
\* exit status of the compiler.
C22_TwoInvocations ==
    (render_pc # "off" /\ render_in.output_format = "pdf") =>
        /\ Invocations(done) <= 2
        /\ Invocations(done) = 2 => LeftArtifact(render_in.o1)
        /\ (render_pc = "returned" /\ render_out.res.ok) => Invocations(done) = 2
        /\ (render_pc = "returned" /\ render_in.w = "ok") =>
               /\ ~LeftArtifact(render_in.o1) => Invocations(done) = 1
               /\ LeftArtifact(render_in.o1) => Invocations(done) = 2
               /\ render_in.copy = "ok" =>
                      (render_out.res.ok <=> (/\ LeftArtifact(render_in.o1)
                                              /\ LeftArtifact(render_in.o2)))

C22_Witness ==
    /\ Returned("pdf")
    /\ render_in.w = "ok" /\ render_in.copy = "ok"
    /\ render_in.o1 = "pdf_errors" /\ render_in.o2 = "pdf_errors"
    /\ Invocations(done) = 2
    /\ render_out.res.ok

(***************************************************************************)
(* The requests of a run.                                                  *)
(***************************************************************************)
\* the generation stage of the run is over
GenerationOver == pc \in {"save", "route", "returned", "raised"} /\ requests # <<>>

\* C23: every pass is submitted once and never again: a run without two_pass
\* issues one request, a run with two_pass whose draft pass succeeds issues the
\* draft request and then the validation request, built from the cleaned draft
\* and the template; no run issues more than two.
C23_OneRequestPerPass ==
    /\ Len(requests) <= 2
    /\ requests # <<>> => requests[1].pass = "draft"
    /\ (GenerationOver /\ ~args.two_pass) => Len(requests) = 1
    /\ (GenerationOver /\ args.two_pass /\ requests[1].failed) => Len(requests) = 1
    /\ (GenerationOver /\ args.two_pass /\ ~requests[1].failed) =>
           /\ Len(requests) = 2
           /\ requests[2].pass = "validation"
           /\ requests[2].latex_code = _clean_latex_response(requests[1].answer)
           /\ requests[2].template = "RESUME_LATEX_TEMPLATE"

C23_Witness ==
    /\ pc = "returned"
    /\ args.two_pass
    /\ Len(requests) = 2
    /\ requests[1].answer = LabeledFence \o <<"\n", "d", "\n">> \o Fence
    /\ requests[2].latex_code = <<"d">>
    /\ requests[2].failed
    /\ result.success

RenderedWithSource ==
    /\ pc = "returned"
    /\ result.success
    /\ args.output_format \in {"pdf", "docx"}
    /\ args.save_latex

\* C25: when a pdf or docx run keeps the source, the source file and the
\* rendered output are two files, and after a successful run the file at
\* latex_file holds the generated markup, whatever the suffix of the output
\* path the caller gave.
C25_SourceDistinct ==
    RenderedWithSource =>
        /\ result.latex_file # result.output_file
        /\ fs[result.latex_file] = Markup(latex_code)

\* the same, for the output paths that do not end in .tex
C25_OtherSuffixes ==
    (RenderedWithSource /\ args.output_path.suffix # ".tex") =>
        /\ result.latex_file # result.output_file
        /\ fs[result.latex_file] = Markup(latex_code)

(***************************************************************************)
(* The markup a run works with.                                            *)
(***************************************************************************)
\* the answer of the last pass that did not raise
LastAnswer ==
    IF Len(requests) = 2 /\ ~requests[2].failed
    THEN requests[2].answer
    ELSE requests[1].answer

\* C26: the markup generation returns is the cleaned response of the last pass
\* that did not raise: the validation response when that pass returned, empty
\* or not, the draft only when it raised; and the run saves and renders that
\* markup without testing that it is not empty.
C26_LastPassWins ==
    GenerationSucceeded =>
        /\ latex_code = _clean_latex_response(LastAnswer)
        /\ (pc \in {"route", "returned"} /\ SourceWanted /\ failure.stage # "save") =>
               (InCalls("save_latex") /\ fs[SourcePath].kind # "absent")
        /\ (pc = "returned" /\ args.output_format # "tex"
              /\ failure.stage # "save") => InCalls("convert")

C26_Witness ==
    /\ pc = "returned"
    /\ args.two_pass /\ args.save_latex /\ args.output_format = "docx"
    /\ Len(requests) = 2
    /\ requests[2].latex_code = <<"d">>
    /\ ~requests[2].failed /\ requests[2].answer = <<>>
    /\ latex_code = <<>>
    /\ InCalls("save_latex") /\ InCalls("convert")
    /\ result.success

(***************************************************************************)
(* Formats customize_resume does not know.                                 *)
(***************************************************************************)
UnknownFormat == args.output_format \notin {"pdf", "docx", "tex"}

\* the run has ended on the unsupported-format error
RejectedFormat ==
    /\ pc = "returned"
    /\ result.error = "Unsupported output format: " \o args.output_format

\* C27: the output format is examined only after generation: a run with an
\* unknown format issues its generation requests and, with save_latex, writes
\* the source file, and only then fails with the unsupported-format error; no
\* run rejects the format before the generation stage.
C27_FormatCheckedLast ==
    /\ (HasResult /\ RejectedFormat) =>
           /\ UnknownFormat
           /\ GenerationSucceeded
           /\ Len(requests) = (IF args.two_pass THEN 2 ELSE 1)
           /\ InCalls("convert")
           /\ ~result.success /\ result.output_file = NULL
           /\ args.save_latex =>
                  /\ SaveBeforeConvert
                  /\ result.latex_file = SourcePath
                  /\ fs[SourcePath] = Markup(latex_code)
           /\ ~args.save_latex => result.latex_file = NULL
    /\ (HasResult /\ UnknownFormat /\ pc = "returned") =>
           /\ ~result.success
           /\ (GenerationSucceeded /\ failure.stage # "save") => RejectedFormat
           /\ ~GenerationSucceeded =>
                  failure.stage \in {"extraction", "validation", "job_description",
                                     "generation"}

C27_Witness ==
    /\ pc = "returned"
    /\ args.output_format = "html"
    /\ args.save_latex /\ args.two_pass
    /\ Len(requests) = 2
    /\ result.error = "Unsupported output format: html"
    /\ result.latex_file = "out/resume.tex"
    /\ fs["out/resume.tex"] = Markup(latex_code)
    /\ ~result.success

====
